---------------------------- MODULE Spec2Model ----------------------------
(***************************************************************************)
(* Model of the snippet template parser, src/src/template.rs, and, in its *)
(* second part, of the terminal application of main.rs and ui.rs.          *)
(*                                                                         *)
(* `parse` is a single left-to-right scan over the characters of its       *)
(* argument followed by the resolution of the navigation order.  One       *)
(* iteration of the scanning loop is one step of the model: there is one   *)
(* action per arm of the `match (c, &mut input_state)`, each of which also  *)
(* performs the code that follows the match (lines 192-197).  `Resolve`     *)
(* is everything after the loop (lines 200-225).                           *)
(*                                                                         *)
(* A string is a sequence of one-character strings.  Offsets into the      *)
(* display text and section indices keep the 0-based values of the code:   *)
(* section index i is sections[i + 1], and the range a..b of the display   *)
(* text is SubSeq(display, a + 1, b).                                      *)
(***************************************************************************)
EXTENDS Integers, Sequences, FiniteSets, TLC

VARIABLES
    s,                  \* the argument of parse
    pos,                \* number of characters of s consumed by the loop
    pc,                 \* "scan" | "done" (Ok returned) | "error" (Err returned)
    err,                \* the Error variant returned, "" if none
    is_escaped,         \* template.rs:108
    to_push,            \* template.rs:110, Option<char> as a sequence of length <= 1
    input_state,        \* template.rs:112, the State enum as a record
    unassigned_inputs,  \* template.rs:114
    input_indexes,      \* template.rs:115, the HashMap as a function on its keys
    display,            \* template.display
    sections,           \* template.sections
    input_order,        \* template.input_order
    control,            \* main.rs:70-82, the state of the event loop of main
    input,              \* the Input last handed to App::read
    keys_read,          \* number of key events read by the loop
    data,               \* ui.rs:34, the entries of App::data
    query,              \* ui.rs:35
    matches,            \* ui.rs:36
    list_index,         \* ui.rs:37
    entry_editor,       \* ui.rs:38, an Option as a sequence of length <= 1
    dialog              \* ui.rs:39, an Option as a sequence of length <= 1

vars == << s, pos, pc, err, is_escaped, to_push, input_state,
           unassigned_inputs, input_indexes, display, sections, input_order >>

\* the variables of the terminal application (main.rs, ui.rs); template.rs is
\* no module of the application (main.rs:1-5), so parse and the application
\* never run together: each has a specification of its own in which the
\* variables of the other keep the value given here
appvars == << control, input, keys_read, data, query, matches, list_index,
              entry_editor, dialog >>

\* the application is not running
AppOff ==
    /\ control = "Off"
    /\ input = << >>
    /\ keys_read = 0
    /\ data = << >>
    /\ query = << >>
    /\ matches = << >>
    /\ list_index = 0
    /\ entry_editor = << >>
    /\ dialog = << >>

\* parse is not running
ParseOff ==
    /\ s = << >>
    /\ pos = 0
    /\ pc = "off"
    /\ err = ""
    /\ is_escaped = FALSE
    /\ to_push = << >>
    /\ input_state = << >>
    /\ unassigned_inputs = << >>
    /\ input_indexes = << >>
    /\ display = << >>
    /\ sections = << >>
    /\ input_order = << >>

-----------------------------------------------------------------------------
(* Bounds of the model and the inputs parse is applied to.                 *)

\* every string over Alphabet of at most MaxLen characters is an input
MaxLen == 4
\* every concatenation of at most MaxFrags members of Fragments is an input
MaxFrags == 4

Alphabet == { "[", "]", "#", "\\", "a", "0", "2" }

Fragments ==
    { << "[", "a", "]" >>,                          \* [a]
      << "[", "#", "a", "]" >>,                     \* [#a]
      << "[", "a", "#", "a", "#", "2", "]" >>,      \* [a#a#2]
      << "[", "#", "#", "3", "]" >>,                \* [##3]
      << "[", "#", "a", "\\", "#", "]" >>,          \* [#a\#]
      << "a" >>,
      << "\\", "a" >> }

\* inputs named by the documentation of the parser
Examples ==
    { << "[", "[", "a", "]", "]" >>,                    \* [[a]]
      << "[", "a", "]", "]" >>,                         \* [a]]
      << "[", "a", "#", "a", "#", "0", "]" >>,          \* [a#a#0]
      << "[", "a", "#", "a", "#", "a", "]" >>,          \* [a#a#a]
      << "[", "a", "#", "a", "#", "]" >>,               \* [a#a#]
      << "[", "a", "#", "a", "#", "9", "#", "]" >>,     \* [a#a#9#]
      << "[", "#", "#", "2", "5", "5", "]" >>,          \* [##255]
      << "[", "#", "#", "2", "5", "6", "]" >>,          \* [##256]
      << "[", "#", "#", "3", "0", "0", "]" >>,          \* [##300]
      << "a", "a", " ", "[", "a", "a" >> }              \* prefix [default

\* every field [##d] whose third part d is a string over NumberAlphabet of at
\* most MaxDigits characters is an input
MaxDigits == 4

NumberAlphabet == { "0", "2", "5", "6", "a" }

RECURSIVE Concat(_)
Concat(fs) == IF fs = << >> THEN << >> ELSE Head(fs) \o Concat(Tail(fs))

CharInputs == UNION { [1..n -> Alphabet] : n \in 0..MaxLen }

FragInputs == { Concat(fs) : fs \in UNION { [1..n -> Fragments] : n \in 0..MaxFrags } }

NumberInputs ==
    { << "[", "#", "#" >> \o d \o << "]" >> :
        d \in UNION { [1..n -> NumberAlphabet] : n \in 0..MaxDigits } }

Inputs == CharInputs \cup FragInputs \cup NumberInputs \cup Examples

-----------------------------------------------------------------------------
(* Values of the code.                                                     *)

\* u8::MAX, the largest value IncrementalU8 holds
U8Max == 255

DigitChars == << "0", "1", "2", "3", "4", "5", "6", "7", "8", "9" >>

IsDigit(c) == \E i \in 1..10 : DigitChars[i] = c

\* char::to_digit(10) of a decimal digit
ToDigit(c) == (CHOOSE i \in 1..10 : DigitChars[i] = c) - 1

\* IsReserved with '#' left out of the pattern of the escape arm
IsReserved_NoHash(c) == c \in { "[", "]", "\\" }

\* the characters of the first match arm: '[' | ']' | '#' | '\\'
IsReserved(c) == c \in { "[", "]", "#", "\\" }

\* the variants of ir::State; the fields a variant does not carry are kept at
\* their defaults
Literal(start) ==
    [ phase |-> "Literal", start |-> start, end |-> 0, desc |-> << >>,
      idx_some |-> FALSE, idx |-> 0 ]
Default(start) ==
    [ phase |-> "Default", start |-> start, end |-> 0, desc |-> << >>,
      idx_some |-> FALSE, idx |-> 0 ]
Description(start, end, desc) ==
    [ phase |-> "Description", start |-> start, end |-> end, desc |-> desc,
      idx_some |-> FALSE, idx |-> 0 ]
Index(start, end, desc, idx_some, idx) ==
    [ phase |-> "Index", start |-> start, end |-> end, desc |-> desc,
      idx_some |-> idx_some, idx |-> idx ]

\* the variants of TemplateSection
LiteralSection(start, end) ==
    [ kind |-> "Literal", start |-> start, end |-> end, desc |-> << >> ]
InputSection(start, end, desc) ==
    [ kind |-> "Input", start |-> start, end |-> end, desc |-> desc ]

\* ReadDigit with wrapping arithmetic in place of checked_mul and checked_add
ReadDigit_Wrapping(value, c) ==
    IF ~IsDigit(c)
    THEN [ err |-> "InvalidNumber", value |-> value ]
    ELSE [ err |-> "", value |-> (value * 10 + ToDigit(c)) % (U8Max + 1) ]

\* IncrementalU8::read_digit: the value read, or the error
ReadDigit(value, c) ==
    IF ~IsDigit(c)
    THEN [ err |-> "InvalidNumber", value |-> value ]
    ELSE IF value * 10 > U8Max \/ value * 10 + ToDigit(c) > U8Max
         THEN [ err |-> "OverflowingNumber", value |-> value ]
         ELSE [ err |-> "", value |-> value * 10 + ToDigit(c) ]

\* lines 192-197: the display text after one iteration that reached the end
\* of the loop body
Flush(disp, escaped, pending) ==
    (IF escaped THEN Append(disp, "\\") ELSE disp) \o pending

\* PushIndexed inserting at the front of the list of the key
PushIndexed_Front(map, key, section) ==
    IF key \in DOMAIN map
    THEN [ map EXCEPT ![key] = << section >> \o @ ]
    ELSE (key :> << section >>) @@ map

\* input_indexes.entry(key).or_default().push(section)
PushIndexed(map, key, section) ==
    IF key \in DOMAIN map
    THEN [ map EXCEPT ![key] = Append(@, section) ]
    ELSE (key :> << section >>) @@ map

-----------------------------------------------------------------------------
Init ==
    /\ s \in Inputs
    /\ pos = 0
    /\ pc = "scan"
    /\ err = ""
    /\ is_escaped = FALSE
    /\ to_push = << >>
    /\ input_state = Literal(0)
    /\ unassigned_inputs = << >>
    /\ input_indexes = << >>
    /\ display = << >>
    /\ sections = << >>
    /\ input_order = << >>
    /\ AppOff

\* the loop is about to read the character c == s[pos + 1]
Scanning == pc = "scan" /\ pos < Len(s)
c == s[pos + 1]

\* `return Err(e)`
Fail(e) ==
    /\ pc' = "error"
    /\ err' = e
    /\ UNCHANGED << s, pos, is_escaped, to_push, input_state, unassigned_inputs,
                    input_indexes, display, sections, input_order >>
    /\ UNCHANGED appvars

\* the end of one iteration: lines 192-197, entered with is_escaped = escaped
\* and to_push = pending
EndOfIteration(escaped, pending) ==
    /\ display' = Flush(display, escaped, pending)
    /\ is_escaped' = FALSE
    /\ to_push' = << >>
    /\ pos' = pos + 1
    /\ UNCHANGED << s, pc, err >>
    /\ UNCHANGED appvars

\* Arm with the `('[', _)` arm matching only State::Default
Arm_NestedOnlyInDefault(ch, st, escaped) ==
    IF IsReserved(ch) /\ escaped THEN "escape"
    ELSE IF ch = "\\" THEN "backslash"
    ELSE IF ch = "[" /\ st.phase = "Literal" THEN "open"
    ELSE IF ch = "[" /\ st.phase = "Default" THEN "bracket_in_bracket"
    ELSE IF ch = "#" /\ st.phase = "Default" THEN "first_hash"
    ELSE IF ch = "#" /\ st.phase = "Description" THEN "second_hash"
    ELSE IF ch = "#" /\ st.phase = "Index" THEN "third_hash"
    ELSE IF ch = "]" /\ st.phase = "Literal" THEN "close_literal"
    ELSE IF ch = "]" /\ st.phase = "Default" THEN "close_default"
    ELSE IF ch = "]" /\ st.phase = "Description" THEN "close_description"
    ELSE IF ch = "]" /\ st.phase = "Index" /\ ~st.idx_some THEN "close_index_none"
    ELSE IF ch = "]" /\ st.phase = "Index" /\ st.idx = 0 THEN "close_index_zero"
    ELSE IF ch = "]" /\ st.phase = "Index" THEN "close_index"
    ELSE IF st.phase \in { "Literal", "Default" } THEN "displayed"
    ELSE IF st.phase = "Index" THEN "read_index"
    ELSE "read_description"

\* the arm of `match (c, &mut input_state)` that is taken: the first, in the
\* order of the source, whose pattern and guard hold (lines 119-190)
Arm(ch, st, escaped) ==
    IF IsReserved(ch) /\ escaped THEN "escape"
    ELSE IF ch = "\\" THEN "backslash"
    ELSE IF ch = "[" /\ st.phase = "Literal" THEN "open"
    ELSE IF ch = "[" THEN "bracket_in_bracket"
    ELSE IF ch = "#" /\ st.phase = "Default" THEN "first_hash"
    ELSE IF ch = "#" /\ st.phase = "Description" THEN "second_hash"
    ELSE IF ch = "#" /\ st.phase = "Index" THEN "third_hash"
    ELSE IF ch = "]" /\ st.phase = "Literal" THEN "close_literal"
    ELSE IF ch = "]" /\ st.phase = "Default" THEN "close_default"
    ELSE IF ch = "]" /\ st.phase = "Description" THEN "close_description"
    ELSE IF ch = "]" /\ st.phase = "Index" /\ ~st.idx_some THEN "close_index_none"
    ELSE IF ch = "]" /\ st.phase = "Index" /\ st.idx = 0 THEN "close_index_zero"
    ELSE IF ch = "]" /\ st.phase = "Index" THEN "close_index"
    ELSE IF st.phase \in { "Literal", "Default" } THEN "displayed"
    ELSE IF st.phase = "Index" THEN "read_index"
    ELSE "read_description"

Taken(arm) == Scanning /\ Arm(c, input_state, is_escaped) = arm

\* lines 121-124
EscapeReserved ==
    /\ Taken("escape")
    /\ EndOfIteration(FALSE, << c >>)
    /\ UNCHANGED << input_state, unassigned_inputs, input_indexes, sections,
                    input_order >>

\* Backslash with the backslash copied to display at once
Backslash_Displayed ==
    /\ Taken("backslash")
    /\ is_escaped' = TRUE
    /\ display' = Append(display, "\\")
    /\ pos' = pos + 1
    /\ UNCHANGED << s, pc, err, to_push, input_state, unassigned_inputs,
                    input_indexes, sections, input_order >>
    /\ UNCHANGED appvars

\* lines 125-128: `continue` skips the end of the iteration
Backslash ==
    /\ Taken("backslash")
    /\ is_escaped' = TRUE
    /\ pos' = pos + 1
    /\ UNCHANGED << s, pc, err, to_push, input_state, unassigned_inputs,
                    input_indexes, display, sections, input_order >>
    /\ UNCHANGED appvars

\* OpenField without the is_empty test of line 133
OpenField_AlwaysPushes ==
    /\ Taken("open")
    /\ sections' = Append(sections, LiteralSection(input_state.start, Len(display)))
    /\ input_state' = Default(Len(display))
    /\ EndOfIteration(is_escaped, to_push)
    /\ UNCHANGED << unassigned_inputs, input_indexes, input_order >>

\* lines 131-137
OpenField ==
    /\ Taken("open")
    /\ sections' = IF input_state.start < Len(display)
                   THEN Append(sections, LiteralSection(input_state.start, Len(display)))
                   ELSE sections
    /\ input_state' = Default(Len(display))
    /\ EndOfIteration(is_escaped, to_push)
    /\ UNCHANGED << unassigned_inputs, input_indexes, input_order >>

\* line 138
OpenInField ==
    /\ Taken("bracket_in_bracket")
    /\ Fail("BracketInBracket")

\* lines 140-142
FirstHash ==
    /\ Taken("first_hash")
    /\ input_state' = Description(input_state.start, Len(display), << >>)
    /\ EndOfIteration(is_escaped, to_push)
    /\ UNCHANGED << unassigned_inputs, input_indexes, sections, input_order >>

\* lines 144-146
SecondHash ==
    /\ Taken("second_hash")
    /\ input_state' = Index(input_state.start, input_state.end, input_state.desc,
                            FALSE, 0)
    /\ EndOfIteration(is_escaped, to_push)
    /\ UNCHANGED << unassigned_inputs, input_indexes, sections, input_order >>

\* ThirdHash reading the third '#' as the end of the number: the '#' is skipped
ThirdHash_Skipped ==
    /\ Taken("third_hash")
    /\ EndOfIteration(is_escaped, to_push)
    /\ UNCHANGED << input_state, unassigned_inputs, input_indexes, sections,
                    input_order >>

\* line 148
ThirdHash ==
    /\ Taken("third_hash")
    /\ Fail("TooManyFields")

\* CloseLiteral copying the ']' to the display text
CloseLiteral_Displayed ==
    /\ Taken("close_literal")
    /\ EndOfIteration(is_escaped, << c >>)
    /\ UNCHANGED << input_state, unassigned_inputs, input_indexes, sections,
                    input_order >>

\* line 152
CloseLiteral ==
    /\ Taken("close_literal")
    /\ Fail("UnbalancedBrackets")

\* lines 154-159
CloseDefault ==
    /\ Taken("close_default")
    /\ unassigned_inputs' = Append(unassigned_inputs, Len(sections))
    /\ sections' = Append(sections,
                          InputSection(input_state.start, Len(display), << >>))
    /\ input_state' = Literal(Len(display))
    /\ EndOfIteration(is_escaped, to_push)
    /\ UNCHANGED << input_indexes, input_order >>

\* lines 161-165
CloseDescription ==
    /\ Taken("close_description")
    /\ unassigned_inputs' = Append(unassigned_inputs, Len(sections))
    /\ sections' = Append(sections,
                          InputSection(input_state.start, input_state.end,
                                       input_state.desc))
    /\ input_state' = Literal(Len(display))
    /\ EndOfIteration(is_escaped, to_push)
    /\ UNCHANGED << input_indexes, input_order >>

\* line 168
CloseIndexNone ==
    /\ Taken("close_index_none")
    /\ Fail("InvalidNumber")

\* lines 170-172
CloseIndexZero ==
    /\ Taken("close_index_zero")
    /\ Fail("MissingNumber")

\* lines 173-180
CloseIndex ==
    /\ Taken("close_index")
    /\ input_indexes' = PushIndexed(input_indexes, input_state.idx, Len(sections))
    /\ sections' = Append(sections,
                          InputSection(input_state.start, input_state.end,
                                       input_state.desc))
    /\ input_state' = Literal(Len(display))
    /\ EndOfIteration(is_escaped, to_push)
    /\ UNCHANGED << unassigned_inputs, input_order >>

\* DisplayedChar dropping a '#' read outside a field
DisplayedChar_DropsHash ==
    /\ Taken("displayed")
    /\ EndOfIteration(is_escaped, IF c = "#" THEN << >> ELSE << c >>)
    /\ UNCHANGED << input_state, unassigned_inputs, input_indexes, sections,
                    input_order >>

\* line 183
DisplayedChar ==
    /\ Taken("displayed")
    /\ EndOfIteration(is_escaped, << c >>)
    /\ UNCHANGED << input_state, unassigned_inputs, input_indexes, sections,
                    input_order >>

\* lines 185-187: `?` returns the error of read_digit
IndexChar ==
    /\ Taken("read_index")
    /\ LET r == ReadDigit(IF input_state.idx_some THEN input_state.idx ELSE 0, c)
       IN  IF r.err # ""
           THEN Fail(r.err)
           ELSE /\ input_state' = [ input_state EXCEPT !.idx_some = TRUE,
                                                       !.idx = r.value ]
                /\ EndOfIteration(is_escaped, to_push)
                /\ UNCHANGED << unassigned_inputs, input_indexes, sections,
                                input_order >>

\* line 189
DescriptionChar ==
    /\ Taken("read_description")
    /\ input_state' = [ input_state EXCEPT !.desc = Append(@, c) ]
    /\ EndOfIteration(is_escaped, to_push)
    /\ UNCHANGED << unassigned_inputs, input_indexes, sections, input_order >>

-----------------------------------------------------------------------------
(* After the loop: the navigation order (lines 200-225).                   *)

Reverse(seq) == [ i \in 1..Len(seq) |-> seq[Len(seq) + 1 - i] ]

RECURSIVE Insert(_, _)
Insert(x, sorted) ==
    IF sorted = << >> THEN << x >>
    ELSE IF x <= Head(sorted) THEN << x >> \o sorted
    ELSE << Head(sorted) >> \o Insert(x, Tail(sorted))

\* Sorted without the sort: the keys as the map yielded them
Sorted_AsIterated(keys) == keys

\* Itertools::sorted on the (key, sections) pairs: the keys of a map are
\* distinct, so the pairs are ordered by key
RECURSIVE Sorted(_)
Sorted(keys) == IF keys = << >> THEN << >> ELSE Insert(Head(keys), Sorted(Tail(keys)))

\* the orders in which input_indexes.into_iter() may yield the keys
IterationOrders(map) ==
    { o \in [1..Cardinality(DOMAIN map) -> DOMAIN map] :
        \A i, j \in DOMAIN o : i # j => o[i] # o[j] }

\* lines 211-215: the while loop, run with the key `key`; unassigned is the
\* reversed list, popped from its end
RECURSIVE FillGaps(_, _, _)
FillGaps(key, order, unassigned) ==
    IF key < Len(order) /\ unassigned # << >>
    THEN FillGaps(key,
                  Append(order, << unassigned[Len(unassigned)] >>),
                  SubSeq(unassigned, 1, Len(unassigned) - 1))
    ELSE [ order |-> order, unassigned |-> unassigned ]

\* lines 204-217: the for loop over the sorted keys
RECURSIVE ForKeys(_, _, _, _)
ForKeys(keys, map, order, unassigned) ==
    IF keys = << >>
    THEN [ order |-> order, unassigned |-> unassigned ]
    ELSE LET filled == FillGaps(Head(keys), order, unassigned)
         IN  ForKeys(Tail(keys), map,
                     Append(filled.order, map[Head(keys)]),
                     filled.unassigned)

\* ResolveOrder without the final extend of lines 220-223
ResolveOrder_NoRest(keys, map, order, unassigned) ==
    ForKeys(Sorted(keys), map, order, Reverse(unassigned)).order

\* ResolveOrder without the second reverse of line 220
ResolveOrder_RestReversed(keys, map, order, unassigned) ==
    LET looped == ForKeys(Sorted(keys), map, order, Reverse(unassigned))
        rest   == looped.unassigned
    IN  looped.order \o [ i \in 1..Len(rest) |-> << rest[i] >> ]

\* lines 200-223: the value of template.input_order when parse returns
ResolveOrder(keys, map, order, unassigned) ==
    LET looped == ForKeys(Sorted(keys), map, order, Reverse(unassigned))
        rest   == Reverse(looped.unassigned)
    IN  looped.order \o [ i \in 1..Len(rest) |-> << rest[i] >> ]

\* lines 200-225: the loop has consumed s; the locals are moved out of
Resolve ==
    /\ pc = "scan"
    /\ pos = Len(s)
    /\ \E keys \in IterationOrders(input_indexes) :
          input_order' = ResolveOrder(keys, input_indexes, input_order,
                                      unassigned_inputs)
    /\ pc' = "done"
    /\ UNCHANGED << s, pos, err, is_escaped, to_push, input_state,
                    unassigned_inputs, input_indexes, display, sections >>
    /\ UNCHANGED appvars

Next ==
    \/ EscapeReserved
    \/ Backslash
    \/ OpenField
    \/ OpenInField
    \/ FirstHash
    \/ SecondHash
    \/ ThirdHash
    \/ CloseLiteral
    \/ CloseDefault
    \/ CloseDescription
    \/ CloseIndexNone
    \/ CloseIndexZero
    \/ CloseIndex
    \/ DisplayedChar
    \/ IndexChar
    \/ DescriptionChar
    \/ Resolve

Spec == Init /\ [][Next]_<< vars, appvars >>

-----------------------------------------------------------------------------
(* The template text, read independently of the parser's variables.        *)

ReservedChars == { "[", "]", "#", "\\" }

\* the character at position i of str follows a backslash that is not itself
\* escaped
RECURSIVE EscapedAt(_, _)
EscapedAt(str, i) == i > 1 /\ str[i - 1] = "\\" /\ ~EscapedAt(str, i - 1)

\* position i of str holds the syntax character ch, unescaped
Syntax(str, i, ch) == i \in 1..Len(str) /\ str[i] = ch /\ ~EscapedAt(str, i)

\* the positions of the closing brackets of the fields of str
Closes(str) == { j \in 1..Len(str) : Syntax(str, j, "]") }

\* the opening bracket of the field that position j is in or closes
OpenOf(str, j) ==
    CHOOSE i \in 1..(j - 1) :
        /\ Syntax(str, i, "[")
        /\ \A k \in (i + 1)..(j - 1) : ~Syntax(str, k, "[")

\* the separators of the field closed at j
Hashes(str, j) == { h \in (OpenOf(str, j) + 1)..(j - 1) : Syntax(str, h, "#") }

Min(S) == CHOOSE x \in S : \A y \in S : x <= y
Max(S) == CHOOSE x \in S : \A y \in S : x >= y

\* the members of a set of numbers, ascending
Ascending(S) ==
    CHOOSE seq \in [1..Cardinality(S) -> S] :
        \A i, j \in 1..Cardinality(S) : i < j => seq[i] < seq[j]

\* raw template text with its escapes resolved: a backslash before a reserved
\* character stands for that character, any other backslash for itself
RECURSIVE Unescape(_)
Unescape(raw) ==
    IF raw = << >> THEN << >>
    ELSE IF Head(raw) = "\\" /\ Len(raw) >= 2 /\ raw[2] \in ReservedChars
         THEN << raw[2] >> \o Unescape(SubSeq(raw, 3, Len(raw)))
    ELSE IF Head(raw) = "\\" /\ Len(raw) >= 2
         THEN << "\\", raw[2] >> \o Unescape(SubSeq(raw, 3, Len(raw)))
    ELSE << Head(raw) >> \o Unescape(Tail(raw))

\* the number the decimal digits of raw denote
RECURSIVE Decimal(_, _)
Decimal(raw, acc) ==
    IF raw = << >> THEN acc
    ELSE Decimal(Tail(raw),
                 IF IsDigit(Head(raw)) THEN acc * 10 + ToDigit(Head(raw)) ELSE acc)

\* the three parts of the field closed at j: raw default text, raw description
\* and declared order (0 when the field has no third part)
DefaultText(str, j) ==
    LET hs == Hashes(str, j)
    IN  SubSeq(str, OpenOf(str, j) + 1, (IF hs = {} THEN j ELSE Min(hs)) - 1)
DescriptionText(str, j) ==
    LET hs == Hashes(str, j)
    IN  IF hs = {} THEN << >>
        ELSE SubSeq(str, Min(hs) + 1, (IF Cardinality(hs) = 1 THEN j ELSE Max(hs)) - 1)
DeclaredOrder(str, j) ==
    LET hs == Hashes(str, j)
    IN  IF Cardinality(hs) < 2 THEN 0
        ELSE Decimal(SubSeq(str, Max(hs) + 1, j - 1), 0)

\* the indices of the Input sections
InputIdx == { i \in 0..(Len(sections) - 1) : sections[i + 1].kind = "Input" }

\* the closing bracket of the field that Input section i was made from: the
\* n-th Input section belongs to the n-th field
CloseOfSection(i) ==
    CHOOSE j \in Closes(s) :
        Cardinality({ k \in Closes(s) : k <= j }) = Cardinality({ k \in InputIdx : k <= i })

OrderOfSection(i) == DeclaredOrder(s, CloseOfSection(i))

\* the places of input_order
Places == { p \in (DOMAIN input_order) \X (0..Len(sections)) :
              p[2] \in DOMAIN input_order[p[1]] }

-----------------------------------------------------------------------------
(* C1: when parse succeeds, the ranges of the sections, in order, partition *)
(* the display text: the first starts at 0, each starts where the one       *)
(* before it ended, and the last ends at the length of display.             *)
C1_SectionsPartitionDisplay ==
    pc = "done" =>
        /\ \A i \in DOMAIN sections : sections[i].start <= sections[i].end
        /\ \A i \in 1..(Len(sections) - 1) : sections[i + 1].start = sections[i].end
        /\ sections # << >> => sections[1].start = 0
        /\ (IF sections = << >> THEN 0 ELSE sections[Len(sections)].end) = Len(display)

(* C2: when parse succeeds, every index in a group of input_order is the     *)
(* index of an Input section, and the index of every Input section occurs   *)
(* exactly once in input_order, over all groups.                             *)
C2_InputOrderCoversInputsOnce ==
    pc = "done" =>
        /\ \A p \in Places : input_order[p[1]][p[2]] \in InputIdx
        /\ \A i \in InputIdx :
              Cardinality({ p \in Places : input_order[p[1]][p[2]] = i }) = 1

\* a parse that returned a document with numbered and unnumbered fields
C2_Witness ==
    /\ pc = "done"
    /\ unassigned_inputs # << >>
    /\ \E k \in DOMAIN input_indexes : Len(input_indexes[k]) >= 2
    /\ \E i \in DOMAIN sections : sections[i].kind = "Literal"

\* the field about to be closed is well formed: at most two separators, and a
\* third part, when there is one, of decimal digits denoting 1..255
ClosingWellFormedField ==
    /\ Scanning
    /\ Syntax(s, pos + 1, "]")
    /\ input_state.phase # "Literal"
    /\ LET hs == Hashes(s, pos + 1)
       IN  /\ Cardinality(hs) <= 2
           /\ Cardinality(hs) = 2 =>
                 /\ Max(hs) + 1 <= pos
                 /\ \A k \in (Max(hs) + 1)..pos : IsDigit(s[k])
                 /\ DeclaredOrder(s, pos + 1) \in 1..U8Max

(* C3: closing a well-formed field [default], [default#description] or      *)
(* [default#description#n] pushes exactly one Input section; its range      *)
(* covers the default text in display, its description is the text between  *)
(* the first separator and the next separator or the closing bracket, the   *)
(* field is recorded under key n when it has a third part and as unassigned *)
(* otherwise, and the parser is back in the Literal phase.                   *)
C3_FieldMakesInputSection ==
    [][ ClosingWellFormedField =>
          LET n    == DeclaredOrder(s, pos + 1)
              made == sections'[Len(sections')]
          IN  /\ pc' = "scan"
              /\ Len(sections') = Len(sections) + 1
              /\ SubSeq(sections', 1, Len(sections)) = sections
              /\ made.kind = "Input"
              /\ made.start <= made.end /\ made.end <= Len(display')
              /\ SubSeq(display', made.start + 1, made.end)
                    = Unescape(DefaultText(s, pos + 1))
              /\ made.desc = Unescape(DescriptionText(s, pos + 1))
              /\ IF n = 0
                 THEN /\ unassigned_inputs' = Append(unassigned_inputs, Len(sections))
                      /\ input_indexes' = input_indexes
                 ELSE /\ unassigned_inputs' = unassigned_inputs
                      /\ n \in DOMAIN input_indexes'
                      /\ input_indexes'[n][Len(input_indexes'[n])] = Len(sections)
              /\ input_state'.phase = "Literal"
      ]_vars

\* the rest of C3 holds of the parser: the description is the text between the
\* separators whenever that text holds no backslash
C3_ExceptEscapedDescription ==
    [][ ClosingWellFormedField =>
          LET n    == DeclaredOrder(s, pos + 1)
              made == sections'[Len(sections')]
          IN  /\ pc' = "scan"
              /\ Len(sections') = Len(sections) + 1
              /\ SubSeq(sections', 1, Len(sections)) = sections
              /\ made.kind = "Input"
              /\ made.start <= made.end /\ made.end <= Len(display')
              /\ SubSeq(display', made.start + 1, made.end)
                    = Unescape(DefaultText(s, pos + 1))
              /\ (\A k \in DOMAIN DescriptionText(s, pos + 1) :
                      DescriptionText(s, pos + 1)[k] # "\\")
                    => made.desc = DescriptionText(s, pos + 1)
              /\ IF n = 0
                 THEN /\ unassigned_inputs' = Append(unassigned_inputs, Len(sections))
                      /\ input_indexes' = input_indexes
                 ELSE /\ unassigned_inputs' = unassigned_inputs
                      /\ n \in DOMAIN input_indexes'
                      /\ input_indexes'[n][Len(input_indexes'[n])] = Len(sections)
              /\ input_state'.phase = "Literal"
      ]_vars

-----------------------------------------------------------------------------
(* The navigation order the documentation describes (lines 20-28): the       *)
(* groups of the explicit keys in ascending order, each unnumbered field, in *)
(* declaration order, taking the lowest slot that no explicit key claims.    *)

\* sections of the fields declared with order n (0: unnumbered), ascending
DeclaredWith(n) == Ascending({ i \in InputIdx : OrderOfSection(i) = n })

DeclaredKeys == { OrderOfSection(i) : i \in InputIdx } \ { 0 }

RECURSIVE GapFilled(_, _, _)
GapFilled(keys, unnumbered, order) ==
    IF keys = << >>
    THEN order \o [ i \in 1..Len(unnumbered) |-> << unnumbered[i] >> ]
    ELSE IF Len(order) + 1 < Head(keys) /\ unnumbered # << >>
         THEN GapFilled(keys, Tail(unnumbered), Append(order, << Head(unnumbered) >>))
         ELSE GapFilled(Tail(keys), unnumbered, Append(order, DeclaredWith(Head(keys))))

(* C4: order resolution fills gaps: the unnumbered fields, in declaration    *)
(* order, take the slots below an explicit key k that no explicit group      *)
(* takes, and the group of k comes after them; X, Y (order 2), Z resolve to  *)
(* [X], [Y], [Z] and a, b (order 3), c, d to a, c, b, d.                     *)
C4_GapFilling ==
    pc = "done" =>
        input_order = GapFilled(Ascending(DeclaredKeys), DeclaredWith(0), << >>)

(* C5: the fields declared with one explicit order number form one group of *)
(* input_order, which holds their section indices in declaration order, and *)
(* no other group holds any of them.                                         *)
C5_SameOrderOneGroup ==
    pc = "done" =>
        /\ Cardinality(InputIdx) = Cardinality(Closes(s))
        /\ \A n \in DeclaredKeys :
              \E g \in DOMAIN input_order :
                  /\ input_order[g] = DeclaredWith(n)
                  /\ \A p \in Places :
                        OrderOfSection(input_order[p[1]][p[2]]) = n => p[1] = g

\* two fields with one number, apart from each other, and a field with
\* another number
C5_Witness ==
    /\ pc = "done"
    /\ Cardinality(DeclaredKeys) >= 2
    /\ \E g \in DOMAIN input_order :
          /\ Len(input_order[g]) >= 2
          /\ input_order[g][2] > input_order[g][1] + 1

(* C6: when the input ends inside a field (Default, Description or Index     *)
(* phase), parse fails with UnbalancedBrackets and returns no document.      *)
C6_UnterminatedFieldFails ==
    (pc # "scan" /\ pos = Len(s) /\ input_state.phase # "Literal")
        => (pc = "error" /\ err = "UnbalancedBrackets")

\* s holds no unescaped bracket
NoFieldSyntax == \A i \in 1..Len(s) : ~Syntax(s, i, "[") /\ ~Syntax(s, i, "]")

(* C7: parsing a non-empty text without field syntax succeeds with exactly   *)
(* one section, a Literal over the whole display text, and an empty          *)
(* navigation order.                                                         *)
C7_PlainTextIsOneLiteral ==
    (Len(s) > 0 /\ NoFieldSyntax) =>
        /\ pc # "error"
        /\ pc = "done" =>
              /\ sections = << LiteralSection(0, Len(display)) >>
              /\ input_order = << >>

\* everything but the display text and the escape flag is left as it is
NoBoundary ==
    /\ pc' = "scan"
    /\ input_state' = input_state
    /\ sections' = sections
    /\ unassigned_inputs' = unassigned_inputs
    /\ input_indexes' = input_indexes
    /\ input_order' = input_order

(* C8: a backslash followed by a reserved character r ([, ], # or \) adds    *)
(* the one character r to display, in every phase: the phase stays, no field *)
(* is opened or closed, no section is pushed and no error is raised.         *)
C8_EscapedReservedIsLiteral ==
    [][ /\ ( /\ Scanning
             /\ Syntax(s, pos + 1, "\\")
             /\ pos + 2 <= Len(s)
             /\ s[pos + 2] \in ReservedChars )
           => (NoBoundary /\ display' = display)
        /\ ( /\ Scanning
             /\ EscapedAt(s, pos + 1)
             /\ s[pos + 1] \in ReservedChars )
           => (NoBoundary /\ display' = Append(display, s[pos + 1]))
      ]_vars

\* an escaped # read inside a field
C8_Witness ==
    /\ pc = "scan"
    /\ pos >= 2
    /\ s[pos] = "#"
    /\ EscapedAt(s, pos)
    /\ input_state.phase = "Default"
    /\ display # << >> /\ display[Len(display)] = "#"

(* C9: a backslash followed by a character ch other than [, ], # and \       *)
(* yields a backslash immediately followed by ch in the text being built,    *)
(* whichever phase it is read in: the backslash is neither dropped nor       *)
(* separated from ch.                                                        *)
C9_BackslashKeptWithChar ==
    [][ ( /\ Scanning
          /\ EscapedAt(s, pos + 1)
          /\ s[pos + 1] \notin ReservedChars )
        => /\ pc' = "scan"
           /\ \/ /\ display' = display \o << "\\", s[pos + 1] >>
                 /\ input_state' = input_state
              \/ /\ input_state.phase = "Description"
                 /\ input_state' = [ input_state EXCEPT
                                       !.desc = @ \o << "\\", s[pos + 1] >> ]
                 /\ display' = display
      ]_vars

(* C10: an unescaped [ read inside a field (Default, Description or Index    *)
(* phase) makes parse fail with BracketInBracket; [[a]] fails with it.       *)
C10_NestedBracketFails ==
    /\ [][ ( /\ Scanning
             /\ Syntax(s, pos + 1, "[")
             /\ input_state.phase \in { "Default", "Description", "Index" } )
           => (pc' = "error" /\ err' = "BracketInBracket")
         ]_vars
    /\ []( (s = << "[", "[", "a", "]", "]" >> /\ pc # "scan")
              => (pc = "error" /\ err = "BracketInBracket") )

\* the nested bracket was read after the first separator of the field
C10_Witness ==
    /\ pc = "error"
    /\ err = "BracketInBracket"
    /\ input_state.phase = "Description"

(* C11: an unescaped ] read in the Literal phase (no field is open) makes    *)
(* parse fail with UnbalancedBrackets; [a]] fails with it.                   *)
C11_CloseWithoutOpenFails ==
    /\ [][ ( /\ Scanning
             /\ Syntax(s, pos + 1, "]")
             /\ input_state.phase = "Literal" )
           => (pc' = "error" /\ err' = "UnbalancedBrackets")
         ]_vars
    /\ []( (s = << "[", "a", "]", "]" >> /\ pc # "scan")
              => (pc = "error" /\ err = "UnbalancedBrackets") )

\* the ] that fails follows a field that was closed
C11_Witness ==
    /\ pc = "error"
    /\ err = "UnbalancedBrackets"
    /\ input_state.phase = "Literal"
    /\ sections # << >>
    /\ s[pos + 1] = "]"

(* C12: a third unescaped # in one field (a # read in the Index phase) makes *)
(* parse fail with TooManyFields, whether or not digits were read; [a#d#9#]  *)
(* fails with it.                                                            *)
C12_ThirdHashFails ==
    /\ [][ ( /\ Scanning
             /\ Syntax(s, pos + 1, "#")
             /\ input_state.phase = "Index" )
           => (pc' = "error" /\ err' = "TooManyFields")
         ]_vars
    /\ []( (s = << "[", "a", "#", "a", "#", "9", "#", "]" >> /\ pc # "scan")
              => (pc = "error" /\ err = "TooManyFields") )

\* the third # came after a digit
C12_Witness ==
    /\ pc = "error"
    /\ err = "TooManyFields"
    /\ input_state.idx_some

\* the third # came right after the second
C12_WitnessNoDigit ==
    /\ pc = "error"
    /\ err = "TooManyFields"
    /\ ~input_state.idx_some

\* the text of the third part of the field that position j closes
IndexText(str, j) == SubSeq(str, Max(Hashes(str, j)) + 1, j - 1)

\* the loop is about to read the ] of a field with a third part
ClosingNumberedField ==
    /\ Scanning
    /\ Syntax(s, pos + 1, "]")
    /\ input_state.phase = "Index"
    /\ Cardinality(Hashes(s, pos + 1)) = 2

(* C13: a field whose explicit order evaluates to zero ([a#d#0], [a#d#00])   *)
(* makes parse fail with InvalidNumber.                                      *)
C13_ZeroOrderIsInvalidNumber ==
    [][ ( /\ ClosingNumberedField
          /\ IndexText(s, pos + 1) # << >>
          /\ \A k \in DOMAIN IndexText(s, pos + 1) : IsDigit(IndexText(s, pos + 1)[k])
          /\ Decimal(IndexText(s, pos + 1), 0) = 0 )
        => (pc' = "error" /\ err' = "InvalidNumber")
      ]_vars

(* C14: a field closed right after its second #, with no digit in between   *)
(* ([a#b#]), makes parse fail with MissingNumber.                            *)
C14_NoDigitsIsMissingNumber ==
    [][ ( /\ ClosingNumberedField
          /\ IndexText(s, pos + 1) = << >> )
        => (pc' = "error" /\ err' = "MissingNumber")
      ]_vars

\* the text read so far of the third part of the field that is open
IndexTextRead == IndexText(s, pos + 1)

\* the next character c is an ordinary one, read in the Index phase with the
\* accumulator at value
ReadDigitStep(value) ==
    IF ~IsDigit(s[pos + 1])
    THEN pc' = "error" /\ err' = "InvalidNumber"
    ELSE IF value * 10 + ToDigit(s[pos + 1]) > U8Max
         THEN pc' = "error" /\ err' = "OverflowingNumber"
         ELSE /\ pc' = "scan"
              /\ input_state'.idx_some
              /\ input_state'.idx = value * 10 + ToDigit(s[pos + 1])

(* C15: reading a tab order.  From 0, each ordinary character read in the    *)
(* Index phase goes to read_digit, which fails with InvalidNumber when it is *)
(* no decimal digit (before any overflow check), else with OverflowingNumber *)
(* when value * 10 + digit exceeds 255, and else yields value * 10 + digit.  *)
(* So a digit string denoting 1..255, leading zeros allowed, is accepted     *)
(* with that value, and one denoting more than 255 is rejected.              *)
C15_ReadDigit ==
    /\ [][ ( /\ Scanning
             /\ input_state.phase = "Index"
             /\ s[pos + 1] \notin ReservedChars )
           => ReadDigitStep(IF input_state.idx_some THEN input_state.idx ELSE 0)
         ]_vars
    /\ [][ ( /\ ClosingNumberedField
             /\ IndexText(s, pos + 1) # << >>
             /\ \A k \in DOMAIN IndexText(s, pos + 1) : IsDigit(IndexText(s, pos + 1)[k])
             /\ Decimal(IndexText(s, pos + 1), 0) \in 1..U8Max )
           => /\ pc' = "scan"
              /\ Decimal(IndexText(s, pos + 1), 0) \in DOMAIN input_indexes'
              /\ \E k \in DOMAIN input_indexes'[Decimal(IndexText(s, pos + 1), 0)] :
                    input_indexes'[Decimal(IndexText(s, pos + 1), 0)][k] = Len(sections)
         ]_vars
    /\ []( (pc = "scan" /\ input_state.phase = "Index")
              => /\ Decimal(IndexTextRead, 0) <= U8Max
                 /\ input_state.idx_some => input_state.idx = Decimal(IndexTextRead, 0)
                 /\ ~input_state.idx_some => Decimal(IndexTextRead, 0) = 0 )

\* 256: the multiplication fits, the addition overflows
C15_Witness ==
    /\ pc = "error"
    /\ err = "OverflowingNumber"
    /\ input_state.idx = 25
    /\ s[pos + 1] = "6"

\* 0255 was read and recorded under 255
C15_WitnessLeadingZero ==
    /\ pc = "done"
    /\ U8Max \in DOMAIN input_indexes
    /\ Decimal(s, 0) = U8Max
    /\ Len(s) = 8

\* a character that is no digit, read when another digit would overflow
C15_WitnessInvalidFirst ==
    /\ pc = "error"
    /\ err = "InvalidNumber"
    /\ input_state.phase = "Index"
    /\ input_state.idx * 10 > U8Max
    /\ s[pos + 1] = "a"

(* C16: parse is deterministic: each iteration of the scan takes the one arm *)
(* the match selects, and the input_order parse returns is the same for      *)
(* every order in which the hash map of the explicit keys may be iterated.   *)
C16_Deterministic ==
    /\ (pc = "scan" /\ pos = Len(s)) =>
          \A k1, k2 \in IterationOrders(input_indexes) :
              ResolveOrder(k1, input_indexes, input_order, unassigned_inputs)
                = ResolveOrder(k2, input_indexes, input_order, unassigned_inputs)
    /\ pc = "done" =>
          \A k1 \in IterationOrders(input_indexes) :
              input_order = ResolveOrder(k1, input_indexes, << >>, unassigned_inputs)

\* a document with two explicit keys, so that the map has two iteration orders
C16_Witness ==
    /\ pc = "done"
    /\ Cardinality(DOMAIN input_indexes) >= 2
    /\ unassigned_inputs # << >>

\* the group at place g of input_order is that of an explicit key
Numbered(g) == OrderOfSection(input_order[g][1]) # 0

(* C17: in the resolved input_order the groups of the explicit keys stand in *)
(* strictly ascending order of their key, whatever the order the keys were   *)
(* declared in, and the unnumbered fields stand, each as a group of its own, *)
(* in declaration order relative to one another.                             *)
C17_KeysAscendingRestInOrder ==
    pc = "done" =>
        /\ \A g \in DOMAIN input_order : input_order[g] # << >>
        /\ \A g, h \in DOMAIN input_order :
              (g < h /\ Numbered(g) /\ Numbered(h))
                 => OrderOfSection(input_order[g][1]) < OrderOfSection(input_order[h][1])
        /\ \A i \in InputIdx :
              OrderOfSection(i) = 0 => \E g \in DOMAIN input_order : input_order[g] = << i >>
        /\ \A g, h \in DOMAIN input_order :
              (g < h /\ ~Numbered(g) /\ ~Numbered(h))
                 => input_order[g][1] < input_order[h][1]

\* key 3 declared before key 2, and two unnumbered fields
C17_Witness ==
    /\ pc = "done"
    /\ \E i, j \in InputIdx : i < j /\ OrderOfSection(i) > OrderOfSection(j)
                              /\ OrderOfSection(j) > 0
    /\ Len(unassigned_inputs) >= 2

(* C18: a character consumed in the Description or Index phase leaves the    *)
(* display text as it is: description characters go to the description only, *)
(* index characters to the number only.                                      *)
C18_FieldSuffixNotDisplayed ==
    [][ ( /\ Scanning
          /\ input_state.phase \in { "Description", "Index" } )
        => display' = display
      ]_vars

(* C19: no Literal section with an empty range is emitted: a [ read in the   *)
(* Literal phase at the start of the input or directly after a closed field  *)
(* pushes no section.                                                        *)
C19_NoEmptyLiteral ==
    /\ [][ ( /\ Scanning
             /\ Syntax(s, pos + 1, "[")
             /\ input_state.phase = "Literal"
             /\ (pos = 0 \/ Syntax(s, pos, "]")) )
           => (pc' = "scan" /\ sections' = sections)
         ]_vars
    /\ [](\A i \in DOMAIN sections :
              sections[i].kind = "Literal" => sections[i].start < sections[i].end)

\* a field opened directly after a closed field
C19_Witness ==
    /\ pc = "scan"
    /\ pos >= 2
    /\ Syntax(s, pos, "[")
    /\ Syntax(s, pos - 1, "]")
    /\ input_state.phase = "Default"
    /\ sections # << >>
    /\ sections[Len(sections)].kind = "Input"

(* C20: an unescaped # read in the Literal phase is an ordinary character:   *)
(* it is copied to display, the phase stays Literal, no error is raised.     *)
C20_HashOutsideFieldIsText ==
    [][ ( /\ Scanning
          /\ Syntax(s, pos + 1, "#")
          /\ input_state.phase = "Literal" )
        => /\ pc' = "scan"
           /\ display' = Append(display, "#")
           /\ input_state' = input_state
           /\ sections' = sections
      ]_vars

\* a # read after a closed field
C20_Witness ==
    /\ pc = "scan"
    /\ pos >= 1
    /\ Syntax(s, pos, "#")
    /\ input_state.phase = "Literal"
    /\ sections # << >>
    /\ display # << >> /\ display[Len(display)] = "#"

(* C21: an unescaped backslash that is the last character of the input is    *)
(* dropped: reading it raises no error and changes neither display, the      *)
(* phase nor the sections, and the pending escape is discarded at the end    *)
(* of the scan: parse then returns Ok with display as it was before the      *)
(* backslash.                                                                *)
C21_TrailingBackslashDropped ==
    /\ [][ ( /\ Scanning
             /\ pos + 1 = Len(s)
             /\ Syntax(s, pos + 1, "\\") )
           => /\ pc' = "scan"
              /\ err' = ""
              /\ display' = display
              /\ input_state' = input_state
              /\ sections' = sections
         ]_vars
    /\ [][ ( /\ pc = "scan"
             /\ pos = Len(s)
             /\ Syntax(s, Len(s), "\\") )
           => /\ pc' = "done"
              /\ err' = ""
              /\ display' = display
              /\ sections' = sections
         ]_vars

\* parse has returned Ok for a text that ends with an unescaped backslash
C21_Witness ==
    /\ pc = "done"
    /\ Len(s) >= 2
    /\ Syntax(s, Len(s), "\\")
    /\ is_escaped
    /\ display # << >>

-----------------------------------------------------------------------------
(* The terminal application: main.rs, ui.rs, db.rs, rank.rs, utils.rs and  *)
(* widgets/.                                                               *)
(*                                                                         *)
(* One step is one turn of the loop of main (main.rs:70-82): the frame is  *)
(* drawn, one key event is read and App::read handles it.  There is one    *)
(* action per arm of App::read, of ConfirmDialog::read and of              *)
(* EntryEditor::read, and one for a draw that panics.  Data::write_to_file  *)
(* is taken to succeed.                                                    *)
(*                                                                         *)
(* A text is a sequence of one-character strings, the lines of a text area *)
(* joined by "\n".  The cursor of a text area is state of the tui_textarea  *)
(* crate: an edit may land at any position of the text.  A match is the    *)
(* index of its entry, 0-based as in the code; its score is the result of  *)
(* the rust_fuzzy_search crate and is not modelled, so that rank may       *)
(* return the entries in any order.                                        *)

\* the loop reads at most MaxKeys key events
MaxKeys == 5

\* tui_textarea::Input: key is the variant of Key, ch the character of Key::Char
Key(k) == [ key |-> k, ch |-> "", ctrl |-> FALSE, shift |-> FALSE ]
Char(x) == [ key |-> "Char", ch |-> x, ctrl |-> FALSE, shift |-> FALSE ]
Ctrl(x) == [ key |-> "Char", ch |-> x, ctrl |-> TRUE, shift |-> FALSE ]
\* what the terminal sends for Shift-Tab (ui.rs:250)
ShiftTab == [ key |-> "Null", ch |-> "", ctrl |-> FALSE, shift |-> TRUE ]

\* the key events the loop may read
Keys ==
    { Key("Esc"), Key("Enter"), Key("Tab"), ShiftTab, Key("Down"), Key("Up"),
      Key("Backspace"), Char("y"), Char("n"),
      Ctrl("a"), Ctrl("d"), Ctrl("s") }

\* db.rs:25-36
EntryNew(title, answer, description) ==
    [ title |-> title, description |-> description, code |-> answer, used |-> 0 ]

\* the entries how-db.toml may hold when the program starts
StoredEntries ==
    << [ title |-> << "l", "s" >>, description |-> << >>,
         code |-> << "l", "s" >>, used |-> 0 ],
       [ title |-> << >>, description |-> << "x" >>,
         code |-> << "p", "s" >>, used |-> 2 ] >>

\* the databases the program may be started on: db.rs:91-107
Databases == { SubSeq(StoredEntries, 1, n) : n \in 0..Len(StoredEntries) }

\* the initial queries of the command line: main.rs:69
InitialQueries == { << >>, << "y" >>, << " " >> }

\* db.rs:117-120
DataAdd(entries, entry) == Append(entries, entry)

\* Data::remove with the last entry removed whatever the index
DataRemove_Last(entries, index) == SubSeq(entries, 1, Len(entries) - 1)

\* db.rs:122-125, index is 0-based
DataRemove(entries, index) ==
    SubSeq(entries, 1, index) \o SubSeq(entries, index + 2, Len(entries))

\* rank.rs:6-31: one match per entry, sorted by a score of the fuzzy search
Rank(text, entries) ==
    { m \in [ 1..Len(entries) -> 0..(Len(entries) - 1) ] :
        \A i, j \in 1..Len(entries) : i # j => m[i] # m[j] }

-----------------------------------------------------------------------------
(* widgets/text_area.rs                                                    *)

\* text_area.rs:23-37
NewBlurred(initial) ==
    [ text |-> initial, single_line |-> FALSE, focused |-> FALSE,
      validator |-> FALSE ]

\* text_area.rs:98-104
Focus(area) == [ area EXCEPT !.focused = TRUE ]

\* text_area.rs:106-111
Blur(area) == [ area EXCEPT !.focused = FALSE ]

\* text_area.rs:39-43
NewFocused(initial) == Focus(NewBlurred(initial))

\* text_area.rs:45-48
SetSingleLine(area) == [ area EXCEPT !.single_line = TRUE ]

\* text_area.rs:50-58; the one validator of the program is that of ui.rs:235,
\* |s| !s.is_empty()
SetValidator(area) == [ area EXCEPT !.validator = TRUE ]

\* TextArea::is_valid without the validator
IsValid_Always(area) == TRUE

\* text_area.rs:72-77
IsValid(area) == ~(area.validator /\ ~(area.text # << >>))

\* the texts with ch put at some position of text
Insertions(text, ch) ==
    { SubSeq(text, 1, p) \o << ch >> \o SubSeq(text, p + 1, Len(text)) :
        p \in 0..Len(text) }

\* the texts with one character of text taken out
Deletions(text) ==
    { SubSeq(text, 1, p - 1) \o SubSeq(text, p + 1, Len(text)) :
        p \in 1..Len(text) }

\* text_area.rs:125, the texts tui_textarea may leave after the key event in:
\* a character is typed, Enter and Ctrl-M break the line, Backspace and
\* Ctrl-D delete a character if the cursor has one to delete, every other
\* key leaves the text.  The spaces typed by Tab are not modelled: no text
\* area is handed a Tab.
InnerInput(text, in) ==
    IF in.key = "Char" /\ ~in.ctrl THEN Insertions(text, in.ch)
    ELSE IF in.key = "Enter" \/ (in.key = "Char" /\ in.ch = "m" /\ in.ctrl)
         THEN Insertions(text, "\n")
    ELSE IF in.key = "Backspace" \/ (in.key = "Char" /\ in.ch = "d" /\ in.ctrl)
         THEN { text } \cup Deletions(text)
    ELSE IF in.key = "Tab" THEN { }
    ELSE { text }

\* text_area.rs:113-128
TextAreaInput(area, in) ==
    IF /\ \/ in.key = "Enter"
          \/ in.key = "Char" /\ in.ch = "m" /\ in.ctrl
       /\ area.single_line
    THEN { area }
    ELSE { [ area EXCEPT !.text = t ] : t \in InnerInput(area.text, in) }

\* str::trim of the standard library
Whitespace == { " ", "\n", "\t" }
RECURSIVE TrimStart(_)
TrimStart(text) ==
    IF text # << >> /\ Head(text) \in Whitespace THEN TrimStart(Tail(text))
    ELSE text
Trim(text) == Reverse(TrimStart(Reverse(TrimStart(text))))

\* TextArea::lines()[0]
RECURSIVE FirstLine(_)
FirstLine(text) ==
    IF text = << >> \/ Head(text) = "\n" THEN << >>
    ELSE << Head(text) >> \o FirstLine(Tail(text))

\* ui.rs:149-151
QueryText(area) == Trim(FirstLine(area.text))

-----------------------------------------------------------------------------
(* utils.rs: Wrapping, and the entry editor of ui.rs                        *)

\* ui.rs:223, the SIZE of the editor's Wrapping<3>
SIZE == 3

\* utils.rs:23-25
WrappingNext(n) == (n + 1) % SIZE

\* Wrapping::prev as a saturating subtraction
WrappingPrev_Saturating(n) == IF n = 0 THEN 0 ELSE n - 1

\* utils.rs:27-33
WrappingPrev(n) == IF n = 0 THEN SIZE - 1 ELSE n - 1

\* ui.rs:227-240
EntryEditorNew(title, code, description) ==
    [ title       |-> SetValidator(SetSingleLine(NewFocused(title))),
      code        |-> NewBlurred(code),
      description |-> NewBlurred(description),
      focus       |-> 0 ]

\* ui.rs:285-292: the field current_area borrows, "unreachable" for the arm
\* that panics
CurrentArea(editor) ==
    IF editor.focus = 0 THEN "title"
    ELSE IF editor.focus = 1 THEN "code"
    ELSE IF editor.focus = 2 THEN "description"
    ELSE "unreachable"

\* self.current_area().blur() and self.current_area().focus()
BlurCurrent(editor) ==
    IF CurrentArea(editor) = "unreachable" THEN editor
    ELSE [ editor EXCEPT ![CurrentArea(editor)] = Blur(@) ]
FocusCurrent(editor) ==
    IF CurrentArea(editor) = "unreachable" THEN editor
    ELSE [ editor EXCEPT ![CurrentArea(editor)] = Focus(@) ]

\* ui.rs:273-277
FocusNext(editor) ==
    FocusCurrent([ BlurCurrent(editor) EXCEPT !.focus = WrappingNext(@) ])

\* ui.rs:279-283
FocusPrev(editor) ==
    FocusCurrent([ BlurCurrent(editor) EXCEPT !.focus = WrappingPrev(@) ])

\* ui.rs:294-296
EditorIsValid(editor) ==
    IsValid(editor.title) /\ IsValid(editor.code) /\ IsValid(editor.description)

\* ui.rs:261-265
EditorEntry(editor) ==
    EntryNew(editor.title.text, editor.code.text, editor.description.text)

\* the arm of the match of EntryEditor::read that is taken (ui.rs:243-268)
EditorArm(in, editor) ==
    IF in.key = "Tab" /\ ~in.shift THEN "focus_next"
    ELSE IF in.key = "Null" /\ in.shift THEN "focus_prev"
    ELSE IF in.key = "Esc" THEN "exit"
    ELSE IF in.key = "Char" /\ in.ch = "s" /\ in.ctrl /\ EditorIsValid(editor)
         THEN "add_entry"
    ELSE "input"

\* ConfirmDialog::read with Enter and Esc only
DialogRead_NoChar(in) ==
    IF in.key = "Enter" THEN "confirm"
    ELSE IF in.key = "Esc" THEN "cancel"
    ELSE "none"

\* confirmation.rs:29-37: Some(true), Some(false) or None
DialogRead(in) ==
    IF in.key = "Enter" THEN "confirm"
    ELSE IF in.key = "Char" /\ in.ch = "y" THEN "confirm"
    ELSE IF in.key = "Esc" THEN "cancel"
    ELSE IF in.key = "Char" /\ in.ch = "n" THEN "cancel"
    ELSE "none"

\* confirmation.rs:17-25; the callback is the closure of ui.rs:69-73, which
\* owns the entry it adds, or App::remove_focused (ui.rs:95)
ConfirmDialogNew(text, callback, captured) ==
    [ text |-> text, confirm_callback |-> callback, entry |-> captured ]

\* the arm of the match of the main screen that is taken (ui.rs:82-103)
MainArm(in) ==
    IF in.key = "Esc" THEN "exit"
    ELSE IF in.key = "Char" /\ in.ch = "a" /\ in.ctrl THEN "add_new"
    ELSE IF in.key = "Char" /\ in.ch = "d" /\ in.ctrl THEN "delete"
    ELSE IF in.key = "Enter" THEN "become"
    ELSE IF in.key = "Down" THEN "next_item"
    ELSE IF in.key = "Up" THEN "prev_item"
    ELSE "register_input"

-----------------------------------------------------------------------------
(* main.rs and the App of ui.rs                                            *)

\* ui.rs:43-53, main.rs:68-69
AppInit ==
    /\ ParseOff
    /\ control = "Continue"
    /\ input = Key("Null")
    /\ keys_read = 0
    /\ data \in Databases
    /\ \E initial_query \in InitialQueries :
          /\ query = SetSingleLine(NewFocused(initial_query))
          /\ matches \in Rank(initial_query, data)
    /\ list_index = 0
    /\ entry_editor = << >>
    /\ dialog = << >>

\* ui.rs:205-211: with no entry editor the draw of the frame reads
\* entries()[matches[list_index].0], which panics out of the bounds of matches
RenderPanics == entry_editor = << >> /\ ~(list_index < Len(matches))

\* main.rs:71: the draw panics, the loop ends
DrawPanic ==
    /\ control = "Continue"
    /\ RenderPanics
    /\ control' = "Panic"
    /\ UNCHANGED << input, keys_read, data, query, matches, list_index,
                    entry_editor, dialog >>
    /\ UNCHANGED vars

\* main.rs:71-76: the frame is drawn, the key event in is read and handed to
\* App::read
Reads(in) ==
    /\ control = "Continue"
    /\ ~RenderPanics
    /\ keys_read < MaxKeys
    /\ input' = in
    /\ keys_read' = keys_read + 1
    /\ UNCHANGED vars

\* ui.rs:121-125
RefreshList(area, entries) ==
    /\ matches' \in Rank(QueryText(area), entries)
    /\ list_index' = 0

\* ui.rs:153-157
CloseEntryEditor(entries) ==
    /\ entry_editor' = << >>
    /\ query' = Focus(query)
    /\ RefreshList(Focus(query), entries)

\* the dialog is open: ui.rs:56-62
InDialog(in, answer) ==
    /\ Reads(in)
    /\ dialog # << >>
    /\ DialogRead(in) = answer

\* the entry editor is open and no dialog is: ui.rs:63-79
InEditor(in, arm) ==
    /\ Reads(in)
    /\ dialog = << >>
    /\ entry_editor # << >>
    /\ EditorArm(in, entry_editor[1]) = arm

\* the main screen: ui.rs:81-103
InMain(in, arm) ==
    /\ Reads(in)
    /\ dialog = << >>
    /\ entry_editor = << >>
    /\ MainArm(in) = arm

\* ui.rs:58 with the closure of ui.rs:69-73: Enter or y, the entry is added
ConfirmAddEntry ==
    \E in \in Keys :
        /\ InDialog(in, "confirm")
        /\ dialog[1].confirm_callback = "add"
        /\ data' = DataAdd(data, dialog[1].entry[1])
        /\ CloseEntryEditor(DataAdd(data, dialog[1].entry[1]))
        /\ dialog' = << >>
        /\ control' = "Continue"

\* ConfirmRemoveFocused with list_index taken for the index of the entry
ConfirmRemoveFocused_ByListIndex ==
    \E in \in Keys :
        /\ InDialog(in, "confirm")
        /\ dialog[1].confirm_callback = "remove_focused"
        /\ dialog' = << >>
        /\ IF list_index < Len(matches)
           THEN /\ data' = DataRemove(data, list_index)
                /\ RefreshList(query, DataRemove(data, list_index))
                /\ control' = "Continue"
           ELSE /\ control' = "Panic"
                /\ UNCHANGED << data, matches, list_index >>
        /\ UNCHANGED << query, entry_editor >>

\* ui.rs:58 with App::remove_focused (ui.rs:135-140): Enter or y, the focused
\* entry is removed; line 136 panics out of the bounds of matches
ConfirmRemoveFocused ==
    \E in \in Keys :
        /\ InDialog(in, "confirm")
        /\ dialog[1].confirm_callback = "remove_focused"
        /\ dialog' = << >>
        /\ IF list_index < Len(matches)
           THEN /\ data' = DataRemove(data, matches[list_index + 1])
                /\ RefreshList(query, DataRemove(data, matches[list_index + 1]))
                /\ control' = "Continue"
           ELSE /\ control' = "Panic"
                /\ UNCHANGED << data, matches, list_index >>
        /\ UNCHANGED << query, entry_editor >>

\* ui.rs:59: Esc or n, the dialog is dropped
DialogCancel ==
    \E in \in Keys :
        /\ InDialog(in, "cancel")
        /\ dialog' = << >>
        /\ control' = "Continue"
        /\ UNCHANGED << data, query, matches, list_index, entry_editor >>

\* ui.rs:60: any other key, the dialog is put back
DialogOther ==
    \E in \in Keys :
        /\ InDialog(in, "none")
        /\ control' = "Continue"
        /\ UNCHANGED << data, query, matches, list_index, entry_editor, dialog >>

\* the step of the editor that leaves it in the state editor; current_area
\* panics in its unreachable!() arm
EditorBecomes(editor) ==
    /\ entry_editor' = << editor >>
    /\ control' = IF CurrentArea(editor) = "unreachable" THEN "Panic"
                  ELSE "Continue"
    /\ UNCHANGED << data, query, matches, list_index, dialog >>

\* ui.rs:244-248: Tab
EditorFocusNext ==
    \E in \in Keys :
        /\ InEditor(in, "focus_next")
        /\ EditorBecomes(FocusNext(entry_editor[1]))

\* ui.rs:249-254: Shift-Tab
EditorFocusPrev ==
    \E in \in Keys :
        /\ InEditor(in, "focus_prev")
        /\ EditorBecomes(FocusPrev(entry_editor[1]))

\* EditorExit with the program left at once
EditorExit_Quits ==
    \E in \in Keys :
        /\ InEditor(in, "exit")
        /\ control' = "Exit"
        /\ UNCHANGED << data, query, matches, list_index, entry_editor, dialog >>

\* ui.rs:255 and ui.rs:65: Esc, the editor is closed
EditorExit ==
    \E in \in Keys :
        /\ InEditor(in, "exit")
        /\ CloseEntryEditor(data)
        /\ control' = "Continue"
        /\ UNCHANGED << data, dialog >>

\* EditorAddEntry with the entry added without a confirmation
EditorAddEntry_AtOnce ==
    \E in \in Keys :
        /\ InEditor(in, "add_entry")
        /\ data' = DataAdd(data, EditorEntry(entry_editor[1]))
        /\ CloseEntryEditor(DataAdd(data, EditorEntry(entry_editor[1])))
        /\ control' = "Continue"
        /\ UNCHANGED dialog

\* ui.rs:256-266 and ui.rs:66-75: Ctrl-S with every text area valid, the
\* dialog is opened on a closure that owns the entry
EditorAddEntry ==
    \E in \in Keys :
        /\ InEditor(in, "add_entry")
        /\ dialog' = << ConfirmDialogNew(
                           "Are you sure you want to create a new log?",
                           "add", << EditorEntry(entry_editor[1]) >>) >>
        /\ control' = "Continue"
        /\ UNCHANGED << data, query, matches, list_index, entry_editor >>

\* ui.rs:267: any other key goes to the focused text area
EditorInput ==
    \E in \in Keys :
        /\ InEditor(in, "input")
        /\ IF CurrentArea(entry_editor[1]) = "unreachable"
           THEN EditorBecomes(entry_editor[1])
           ELSE \E area \in TextAreaInput(
                               entry_editor[1][CurrentArea(entry_editor[1])], in) :
                   EditorBecomes([ entry_editor[1] EXCEPT
                                     ![CurrentArea(entry_editor[1])] = area ])

\* ui.rs:83: Esc
MainExit ==
    \E in \in Keys :
        /\ InMain(in, "exit")
        /\ control' = "Exit"
        /\ UNCHANGED << data, query, matches, list_index, entry_editor, dialog >>

\* ui.rs:84-88 and ui.rs:159-162: Ctrl-A opens the entry editor on the query
MainAddNew ==
    \E in \in Keys :
        /\ InMain(in, "add_new")
        /\ entry_editor' = << EntryEditorNew(QueryText(query), << >>, << >>) >>
        /\ query' = Blur(query)
        /\ control' = "Continue"
        /\ UNCHANGED << data, matches, list_index, dialog >>

\* ui.rs:89-96: Ctrl-D opens the dialog on App::remove_focused
MainDelete ==
    \E in \in Keys :
        /\ InMain(in, "delete")
        /\ dialog' = << ConfirmDialogNew(
                           "Are you sure you want to delete this entry?",
                           "remove_focused", << >>) >>
        /\ control' = "Continue"
        /\ UNCHANGED << data, query, matches, list_index, entry_editor >>

\* ui.rs:97-99 and ui.rs:164-167: Enter; line 165 panics out of the bounds of
\* matches
MainBecome ==
    \E in \in Keys :
        /\ InMain(in, "become")
        /\ control' = IF list_index < Len(matches) THEN "Become" ELSE "Panic"
        /\ UNCHANGED << data, query, matches, list_index, entry_editor, dialog >>

\* ui.rs:100 and ui.rs:108-110: Down; with no match `matches.len() - 1`
\* overflows, which panics in a build with overflow checks and wraps to
\* usize::MAX in one without
MainNextItem ==
    \E in \in Keys :
        /\ InMain(in, "next_item")
        /\ \E overflow_checks \in BOOLEAN :
              IF Len(matches) = 0 /\ overflow_checks
              THEN /\ control' = "Panic"
                   /\ UNCHANGED list_index
              ELSE /\ control' = "Continue"
                   /\ list_index' = IF Len(matches) = 0 THEN list_index + 1
                                    ELSE Min({ list_index + 1, Len(matches) - 1 })
        /\ UNCHANGED << data, query, matches, entry_editor, dialog >>

\* ui.rs:101 and ui.rs:112-114: Up, a saturating subtraction
MainPrevItem ==
    \E in \in Keys :
        /\ InMain(in, "prev_item")
        /\ list_index' = IF list_index = 0 THEN 0 ELSE list_index - 1
        /\ control' = "Continue"
        /\ UNCHANGED << data, query, matches, entry_editor, dialog >>

\* ui.rs:102 and ui.rs:116-119: any other key goes to the query
MainRegisterInput ==
    \E in \in Keys :
        /\ InMain(in, "register_input")
        /\ \E area \in TextAreaInput(query, in) :
              /\ query' = area
              /\ RefreshList(area, data)
        /\ control' = "Continue"
        /\ UNCHANGED << data, entry_editor, dialog >>

AppNext ==
    \/ DrawPanic
    \/ ConfirmAddEntry
    \/ ConfirmRemoveFocused
    \/ DialogCancel
    \/ DialogOther
    \/ EditorFocusNext
    \/ EditorFocusPrev
    \/ EditorExit
    \/ EditorAddEntry
    \/ EditorInput
    \/ MainExit
    \/ MainAddNew
    \/ MainDelete
    \/ MainBecome
    \/ MainNextItem
    \/ MainPrevItem
    \/ MainRegisterInput

AppSpec == AppInit /\ [][AppNext]_<< vars, appvars >>

-----------------------------------------------------------------------------
(* Claims about the application.                                           *)

\* the step is a call of App::read, on the key event input'
ReadStep == keys_read' = keys_read + 1
ConfirmKey(in) == in.key = "Enter" \/ (in.key = "Char" /\ in.ch = "y")
CancelKey(in) == in.key = "Esc" \/ (in.key = "Char" /\ in.ch = "n")

C23_DataChangesOnConfirmOnly ==
    [][ data' # data
        => /\ dialog # << >>
           /\ ReadStep
           /\ ConfirmKey(input')
      ]_appvars

\* an entry has been added and another removed
C23_Witness ==
    /\ control = "Continue"
    /\ ConfirmKey(input)
    /\ dialog = << >>
    /\ Len(data) = 1
    /\ data[1].title = << "y" >>

(* C24: no entry with an empty title is ever added.  Ctrl-S in the entry     *)
(* editor opens the confirmation dialog only when every validator passes,    *)
(* that is when the title is not empty, and the dialog then owns the entry   *)
(* made of the three texts of the editor; while the dialog is open that      *)
(* entry does not change, and the entry appended on confirmation is that     *)
(* one.  With an empty title Ctrl-S opens no dialog and adds nothing.        *)
C24_NoEmptyTitleAdded ==
    /\ [][ Len(data') > Len(data)
           => /\ data' = Append(data, data'[Len(data')])
              /\ data'[Len(data')].title # << >>
              /\ dialog # << >>
              /\ dialog[1].entry = << data'[Len(data')] >>
         ]_appvars
    /\ [][ ( /\ ReadStep
             /\ dialog = << >>
             /\ entry_editor # << >>
             /\ input' = Ctrl("s") )
           => /\ data' = data
              /\ entry_editor' = entry_editor
              /\ IF entry_editor[1].title.text # << >>
                 THEN /\ dialog' # << >>
                      /\ dialog'[1].entry =
                           << [ title       |-> entry_editor[1].title.text,
                                code        |-> entry_editor[1].code.text,
                                description |-> entry_editor[1].description.text,
                                used        |-> 0 ] >>
                 ELSE dialog' = << >>
         ]_appvars
    /\ [][ (dialog # << >> /\ dialog' # << >>) => dialog' = dialog ]_appvars

\* the entry typed into the editor has been added on confirmation
C24_Witness ==
    /\ control = "Continue"
    /\ ConfirmKey(input)
    /\ entry_editor = << >>
    /\ dialog = << >>
    /\ data # << >>
    /\ data[Len(data)].title = << "n" >>
    /\ data[Len(data)].used = 0

\* Ctrl-S has been read with an empty title: no dialog
C24_WitnessEmptyTitle ==
    /\ input = Ctrl("s")
    /\ entry_editor # << >>
    /\ entry_editor[1].title.text = << >>
    /\ dialog = << >>
    /\ entry_editor[1].code.text # << >>

\* the delete dialog, opened by Ctrl-D, is open
DeleteDialogOpen ==
    dialog # << >> /\ dialog[1].confirm_callback = "remove_focused"

\* entries without the entry of 0-based index k, the others in their order
Without(entries, k) ==
    [ i \in 1..(Len(entries) - 1) |-> entries[IF i <= k THEN i ELSE i + 1] ]

C26_EscClosesTopmostLayer ==
    /\ [][ (ReadStep /\ control' = "Exit")
           => (dialog = << >> /\ entry_editor = << >> /\ input'.key = "Esc")
         ]_appvars
    /\ [][ (ReadStep /\ control' = "Become")
           => (dialog = << >> /\ entry_editor = << >> /\ input'.key = "Enter")
         ]_appvars
    /\ [][ (ReadStep /\ input'.key = "Esc")
           => IF dialog # << >>
              THEN /\ control' = "Continue"
                   /\ dialog' = << >>
                   /\ entry_editor' = entry_editor
              ELSE IF entry_editor # << >>
              THEN /\ control' = "Continue"
                   /\ dialog' = << >>
                   /\ entry_editor' = << >>
              ELSE control' = "Exit"
         ]_appvars

\* the third Esc after Ctrl-A and Ctrl-S has left the application
C26_Witness ==
    /\ control = "Exit"
    /\ input = Key("Esc")
    /\ keys_read = 5
    /\ data = StoredEntries
    /\ query.text = << "y" >>
    /\ query.focused

\* Esc has closed the dialog over the entry editor, which is still open
C26_WitnessDialogClosed ==
    /\ control = "Continue"
    /\ input = Key("Esc")
    /\ dialog = << >>
    /\ entry_editor # << >>

\* the entry editor takes the key: it is open and no dialog is
EditorReads(in) ==
    /\ ReadStep
    /\ dialog = << >>
    /\ entry_editor # << >>
    /\ input' = in

\* the editor after the step has the focus index n and the texts it had
FocusMovedTo(n) ==
    /\ control' = "Continue"
    /\ entry_editor' # << >>
    /\ entry_editor'[1].focus = n
    /\ entry_editor'[1].title.text = entry_editor[1].title.text
    /\ entry_editor'[1].code.text = entry_editor[1].code.text
    /\ entry_editor'[1].description.text = entry_editor[1].description.text

(* C27: in the entry editor the focus index is always 0, 1 or 2, so that     *)
(* current_area never panics; exactly one text area is focused, the one the  *)
(* index selects (0 title, 1 code, 2 description); Tab moves the focus       *)
(* title -> code -> description -> title and Shift-Tab the opposite way,     *)
(* each wrapping around, so that Shift-Tab undoes Tab.                       *)
C27_EditorFocus ==
    /\ [](entry_editor # << >>
            => /\ control # "Panic"
               /\ entry_editor[1].focus \in { 0, 1, 2 }
               /\ entry_editor[1].title.focused = (entry_editor[1].focus = 0)
               /\ entry_editor[1].code.focused = (entry_editor[1].focus = 1)
               /\ entry_editor[1].description.focused
                     = (entry_editor[1].focus = 2))
    /\ [][ EditorReads(Key("Tab"))
           => /\ entry_editor[1].focus = 0 => FocusMovedTo(1)
              /\ entry_editor[1].focus = 1 => FocusMovedTo(2)
              /\ entry_editor[1].focus = 2 => FocusMovedTo(0)
         ]_appvars
    /\ [][ EditorReads(ShiftTab)
           => /\ entry_editor[1].focus = 0 => FocusMovedTo(2)
              /\ entry_editor[1].focus = 1 => FocusMovedTo(0)
              /\ entry_editor[1].focus = 2 => FocusMovedTo(1)
         ]_appvars

\* Shift-Tab has wrapped the focus from the title to the description
C27_Witness ==
    /\ input = ShiftTab
    /\ entry_editor # << >>
    /\ entry_editor[1].focus = 2
    /\ entry_editor[1].description.focused
    /\ keys_read = 2

\* Tab has wrapped the focus from the description to the title
C27_WitnessTabWraps ==
    /\ input = Key("Tab")
    /\ entry_editor # << >>
    /\ entry_editor[1].focus = 0
    /\ entry_editor[1].title.focused

(* C28: list_index is a valid index into matches whenever it is used: the    *)
(* application never panics, and whenever a frame is drawn with no entry     *)
(* editor open, also on a database with no entries, list_index is below the  *)
(* number of matches.                                                        *)
C28_ListIndexValid ==
    /\ control # "Panic"
    /\ (control = "Continue" /\ entry_editor = << >>) => list_index < Len(matches)

\* Down stops at the last match and Up at 0, the part of C28 that holds
C28_DownAndUpStayInside ==
    [][ (ReadStep /\ dialog = << >> /\ entry_editor = << >>)
        => /\ input'.key = "Down"
                => /\ control' = "Continue"
                   /\ list_index' = Min({ list_index + 1, Len(matches) - 1 })
           /\ input'.key = "Up"
                => /\ control' = "Continue"
                   /\ list_index' = Max({ list_index - 1, 0 })
      ]_appvars

=============================================================================
